---- MODULE Spec2Model ----
(***************************************************************************)
(* Model of hip::detail::Runtime (src/include/hip/detail/runtime.hpp):     *)
(* the control stream, the null stream, the user streams, the worker       *)
(* thread created by processor_(), the helpers of wait_all_streams_() and  *)
(* the static guard Cleaner_.                                              *)
(*                                                                         *)
(* Task and Stream are declared in task.hpp and stream.hpp; what the       *)
(* runtime relies on (a Task resolves its completion handle when its       *)
(* callable returns, Stream::apply runs under the stream's lock) is in     *)
(* InvokeTask and in the atomicity of the steps that touch one queue.      *)
(***************************************************************************)
EXTENDS Integers, Sequences, FiniteSets, TLC

\* ---- bounds of the model ------------------------------------------------
NumProducers == 1      \* producer threads
MaxCalls == 4          \* public operations called over a run
MaxErr == 3            \* error codes other than hipSuccess

\* ---- identities ----------------------------------------------------------
Ctl == 0               \* internal_stream_
Null == 1              \* the Stream that null_stream() creates
FHelper == 0           \* the std::async helper of wait_all_streams_
NullPtr == -1          \* Stream* s == nullptr
hipSuccess == 0
ErrThreads == 0..NumProducers      \* threads that use the last-error slot
ErrorCodes == 0..MaxErr
Producers == 1..NumProducers
UserIds == 2..(MaxCalls + 1)
AllStreams == {Ctl, Null} \cup UserIds

\* kinds of thread
NoThread == "none"
WorkerT == "worker"
HelperT == "helper"
ProducerT == "producer"

VARIABLES
    queue,          \* allocated Stream object -> its task sequence
    streams_,       \* the forward_list of streams, front first
    nullInit,       \* static local of null_stream(): "no", "busy", "done";
                    \* "freed" once the Stream it refers to was destroyed
    handle,         \* static std::thread of processor_()
    wpc, wt, wret,  \* worker: position, swapped-out control batch, drain continuation
    helpers,        \* helpers of the running wait_all_streams_()
    pc,             \* producer positions
    cpc,            \* position of ~Cleaner_
    nstreams,       \* user Stream objects allocated so far
    aborted,        \* the process was terminated by an exception
    enq,            \* tasks appended to each stream so far
    invCount,       \* task -> number of invocations
    invokedBy,      \* task -> thread of its invocation
    syncSnap,       \* producer in synchronize(): its task and enq at the call
    destroyPending, \* stream -> tasks not yet invoked when destroy was called
    primeOwed,      \* the null stream was non-empty when this worker iteration
                    \* began and the iteration has not started a drain yet
    shutEnq,        \* enq when ~Cleaner_ began
    race,           \* worker mutations overlapping a foreign emplace_front
    calls,          \* public operations called so far
    lastError,      \* last_error_(): slot -> status code
    errExpect,      \* thread -> the code it last passed to set_last_error
    errLog          \* the last call of set_last_error / last_error

vars == <<queue, streams_, nullInit, handle, wpc, wt, wret, helpers, pc, cpc,
          nstreams, aborted, enq, invCount, invokedBy, syncSnap, destroyPending,
          primeOwed, shutEnq, race, calls,
          lastError, errExpect, errLog>>

errVars == <<lastError, errExpect, errLog>>
runVars == <<queue, streams_, nullInit, handle, wpc, wt, wret, helpers, pc, cpc,
             nstreams, aborted, enq, invCount, invokedBy, syncSnap,
             destroyPending, primeOwed, shutEnq, race, calls>>

\* ---- helpers ---------------------------------------------------------------
Range(s) == {s[i] : i \in DOMAIN s}
NoSnap == [key |-> <<Ctl, 0>>, snap |-> [s \in AllStreams |-> 0]]
NoRace == [ins |-> {}, rem |-> FALSE]
NoHelpers == << >>
ZeroEnq == [s \in AllStreams |-> 0]
NoErrCall == [t |-> 0, op |-> "none", ret |-> hipSuccess, exp |-> hipSuccess]

\* Task{callable}: the key names the task, kind/arg its callable.
Task(s, kind, arg) == [key |-> <<s, enq[s] + 1>>, kind |-> kind, arg |-> arg]

\* ts.push_back(std::move(r)) under Stream::apply
AppendTask(s, kind, arg) ==
    /\ queue' = [queue EXCEPT ![s] = Append(@, Task(s, kind, arg))]
    /\ enq' = [enq EXCEPT ![s] = @ + 1]
    /\ invCount' = invCount @@ (<<s, enq[s] + 1>> :> 0)
    /\ invokedBy' = invokedBy @@ (<<s, enq[s] + 1>> :> NoThread)

\* t = std::move(ts): what is left in the stream's sequence
MovedFrom_copy(ts) == ts
MovedFrom(ts) == << >>

\* x(flag): the callable has returned and the completion handle is resolved
InvokeTask(k, th) ==
    /\ invCount' = [invCount EXCEPT ![k] = @ + 1]
    /\ invokedBy' = [invokedBy EXCEPT ![k] = th]

Resolved(k) == k \in DOMAIN invCount /\ invCount[k] >= 1

\* processor_(): the first call constructs the static std::thread
StartedHandle(h) == IF h = "unborn" THEN "joinable" ELSE h
StartedPc(w) == IF w = "unborn" THEN "swap_ctl" ELSE w
StartWorker ==
    /\ handle' = StartedHandle(handle)
    /\ wpc' = StartedPc(wpc)

\* processor_().detach() after joinable() was seen true
DetachAct ==
    IF handle = "joinable" /\ cpc # "join"
    THEN /\ handle' = "detached"
         /\ UNCHANGED aborted
    ELSE /\ handle' = handle
         /\ aborted' \in BOOLEAN

\* the static local r of null_stream() is initialised (it may dangle)
NullMade == nullInit \in {"done", "freed"}

\* static auto& r{streams_.emplace_front()} run by a thread other than the
\* worker: the lists the unsynchronised insertion can leave behind
EmplaceOutcomes ==
    {<<Null>> \o streams_}
    \cup (IF race.ins # {} \/ race.rem THEN {streams_} ELSE {})
    \cup (IF race.ins # {}
          THEN {<<Null>> \o SelectSeq(streams_, LAMBDA x : x \notin race.ins)}
          ELSE {})

FinishNullInit ==
    /\ streams_' \in EmplaceOutcomes
    /\ queue' = queue @@ (Null :> << >>)
    /\ nullInit' = "done"
    /\ race' = NoRace

Init ==
    /\ queue = (Ctl :> << >>)
    /\ streams_ = << >>
    /\ nullInit = "no"
    /\ handle = "unborn"
    /\ wpc = "unborn"
    /\ wt = << >>
    /\ wret = "loop"
    /\ helpers = NoHelpers
    /\ pc = [p \in Producers |-> "idle"]
    /\ cpc = "live"
    /\ nstreams = 0
    /\ aborted = FALSE
    /\ enq = ZeroEnq
    /\ invCount = << >>
    /\ invokedBy = << >>
    /\ syncSnap = [p \in Producers |-> NoSnap]
    /\ destroyPending = << >>
    /\ primeOwed = FALSE
    /\ shutEnq = ZeroEnq
    /\ race = NoRace
    /\ calls = 0
    /\ lastError = [t \in ErrThreads |-> hipSuccess]
    /\ errExpect = [t \in ErrThreads |-> hipSuccess]
    /\ errLog = NoErrCall

\* a producer may start a public operation
CanCall(p) == ~aborted /\ cpc = "live" /\ pc[p] = "idle" /\ calls < MaxCalls

\* user streams whose handle a producer may still use
Usable == {s \in DOMAIN queue : s \in UserIds /\ s \notin DOMAIN destroyPending}

\* streams a producer may pass to destroy_stream_async: its user streams and
\* the pointer null_stream() returns (taken when that call had nothing to
\* initialise or detach)
Destroyable ==
    Usable \cup (IF nullInit = "done" /\ handle # "joinable"
                    /\ Null \notin DOMAIN destroyPending
                 THEN {Null} ELSE {})

\* ---- producers -------------------------------------------------------------

make_stream_async(p) ==
    /\ CanCall(p)
    /\ AppendTask(Ctl, "make", 0)
    /\ calls' = calls + 1
    /\ StartWorker
    /\ pc' = [pc EXCEPT ![p] = IF handle' = "joinable" THEN "mk_det" ELSE "idle"]
    /\ UNCHANGED <<streams_, nullInit, wt, wret, helpers, cpc, nstreams, aborted,
                   syncSnap, destroyPending, primeOwed, shutEnq, race>>
    /\ UNCHANGED errVars

destroy_stream_async(p, s) ==
    /\ CanCall(p)
    /\ s \in Destroyable
    /\ AppendTask(Ctl, "destroy", s)
    /\ destroyPending' = destroyPending @@
           (s :> {n \in 1..enq[s] : invCount[<<s, n>>] = 0})
    /\ calls' = calls + 1
    /\ UNCHANGED <<streams_, nullInit, handle, wpc, wt, wret, helpers, pc, cpc,
                   nstreams, aborted, syncSnap, primeOwed, shutEnq, race>>
    /\ UNCHANGED errVars

\* if (!s) { s = null_stream(); mark_as_all_synchronising(*p); }: the stream
\* the task is appended to, and whether the event was marked
Target(s) == IF s = NullPtr THEN Null ELSE s
AllSynchronising_never(s) == 0
AllSynchronising(s) == IF s = NullPtr THEN 1 ELSE 0

\* push_task(p, s) with s != nullptr
push_task(p, s) ==
    /\ CanCall(p)
    /\ s \in Usable
    /\ AppendTask(Target(s), "mark", AllSynchronising(s))
    /\ calls' = calls + 1
    /\ UNCHANGED <<streams_, nullInit, handle, wpc, wt, wret, helpers, pc, cpc,
                   nstreams, aborted, syncSnap,
                   destroyPending, primeOwed, shutEnq, race>>
    /\ UNCHANGED errVars

\* a caller appends to its stream, through Stream::apply, a task whose callable
\* sets its flag argument
apply_flagging(p, s) ==
    /\ CanCall(p)
    /\ s \in Usable
    /\ AppendTask(s, "flag", 0)
    /\ calls' = calls + 1
    /\ UNCHANGED <<streams_, nullInit, handle, wpc, wt, wret, helpers, pc, cpc,
                   nstreams, aborted, syncSnap,
                   destroyPending, primeOwed, shutEnq, race>>
    /\ UNCHANGED errVars

\* push_task(p, nullptr) once null_stream() is past its static initialiser:
\* the joinable() test, then the append
PushNullContinue(p) ==
    /\ NullMade
    /\ IF handle = "joinable"
       THEN /\ pc' = [pc EXCEPT ![p] = "pn_det"]
            /\ UNCHANGED <<queue, enq, invCount, invokedBy>>
       ELSE /\ pc' = [pc EXCEPT ![p] = "idle"]
            /\ AppendTask(Target(NullPtr), "mark", AllSynchronising(NullPtr))
    /\ UNCHANGED <<streams_, nullInit, handle, wpc, wt, wret, helpers, cpc,
                   nstreams, aborted, syncSnap,
                   destroyPending, primeOwed, shutEnq, race>>

\* push_task(p, nullptr): enters null_stream()
push_task_null(p) ==
    /\ CanCall(p)
    /\ nullInit # "busy"
    /\ calls' = calls + 1
    /\ IF nullInit = "no"
       THEN /\ nullInit' = "busy"
            /\ race' = NoRace
            /\ pc' = [pc EXCEPT ![p] = "pn_init"]
            /\ UNCHANGED <<queue, streams_, handle, wpc, wt, wret, helpers, cpc,
                           nstreams, aborted, enq, invCount, invokedBy, syncSnap, destroyPending, primeOwed, shutEnq>>
       ELSE PushNullContinue(p)
    /\ UNCHANGED errVars

\* null_stream() on a producer: emplace_front completes, processor_() is called
PushNullInit(p) ==
    /\ ~aborted
    /\ pc[p] = "pn_init"
    /\ FinishNullInit
    /\ StartWorker
    /\ pc' = [pc EXCEPT ![p] = "pn_ns"]
    /\ UNCHANGED <<wt, wret, helpers, cpc, nstreams, aborted, enq, invCount,
                   invokedBy, syncSnap, destroyPending, primeOwed, shutEnq, calls>>
    /\ UNCHANGED errVars

PushNullResume(p) ==
    /\ ~aborted
    /\ pc[p] = "pn_ns"
    /\ PushNullContinue(p)
    /\ UNCHANGED calls
    /\ UNCHANGED errVars

\* synchronize() that runs the drain on the calling thread
synchronize_inline(p) ==
    /\ CanCall(p)
    /\ calls' = calls + 1
    /\ invCount' = [k \in DOMAIN invCount |->
                       IF k[1] # Ctl /\ k[1] \in DOMAIN queue
                          /\ \E i \in DOMAIN queue[k[1]] : queue[k[1]][i].key = k
                       THEN invCount[k] + 1
                       ELSE invCount[k]]
    /\ invokedBy' = [k \in DOMAIN invokedBy |->
                        IF invCount'[k] # invCount[k] THEN ProducerT ELSE invokedBy[k]]
    /\ queue' = [s \in DOMAIN queue |-> IF s = Ctl THEN queue[s] ELSE << >>]
    /\ UNCHANGED <<streams_, nullInit, handle, wpc, wt, wret, helpers, pc, cpc,
                   nstreams, aborted, enq, syncSnap, destroyPending, primeOwed, shutEnq, race>>
    /\ UNCHANGED errVars

synchronize(p) ==
    /\ CanCall(p)
    /\ AppendTask(Ctl, "sync", p)
    /\ calls' = calls + 1
    /\ syncSnap' = [syncSnap EXCEPT ![p] =
                       [key |-> <<Ctl, enq[Ctl] + 1>>, snap |-> enq]]
    /\ StartWorker
    /\ pc' = [pc EXCEPT ![p] = IF handle' = "joinable" THEN "sy_det" ELSE "sy_wait"]
    /\ UNCHANGED <<streams_, nullInit, wt, wret, helpers, cpc, nstreams, aborted,
                   destroyPending, primeOwed, shutEnq, race>>
    /\ UNCHANGED errVars

\* processor_().detach() on a producer, then the rest of its operation
ProducerDetach(p) ==
    /\ ~aborted
    /\ pc[p] \in {"mk_det", "sy_det", "pn_det"}
    /\ DetachAct
    /\ IF pc[p] = "pn_det"
       THEN AppendTask(Target(NullPtr), "mark", AllSynchronising(NullPtr))
       ELSE UNCHANGED <<queue, enq, invCount, invokedBy>>
    /\ pc' = [pc EXCEPT ![p] = IF pc[p] = "sy_det" THEN "sy_wait" ELSE "idle"]
    /\ UNCHANGED <<streams_, nullInit, wpc, wt, wret, helpers, cpc, nstreams,
                   syncSnap, destroyPending, primeOwed, shutEnq, race, calls>>
    /\ UNCHANGED errVars

\* f.wait() of synchronize() returns
SyncReturn(p) ==
    /\ ~aborted
    /\ pc[p] = "sy_wait"
    /\ Resolved(syncSnap[p].key)
    /\ pc' = [pc EXCEPT ![p] = "idle"]
    /\ syncSnap' = [syncSnap EXCEPT ![p] = NoSnap]
    /\ UNCHANGED <<queue, streams_, nullInit, handle, wpc, wt, wret, helpers, cpc,
                   nstreams, aborted, enq, invCount, invokedBy, destroyPending,
                   primeOwed, shutEnq, race, calls>>
    /\ UNCHANGED errVars

\* ---- the worker thread (processor_) -----------------------------------------

\* the worker's pending-work test: null stream first, then none_of over streams_
backoff(q, sts) ==
    IF q[Null] # << >>
    THEN FALSE
    ELSE \A i \in DOMAIN sts : ~(q[sts[i]] # << >>)

\* the streams std::for_each(par, begin(streams_), end(streams_)) visits
DrainTargets(sts) == Range(sts)

SpawnHelpers ==
    /\ helpers' = [h \in {FHelper} \cup DrainTargets(streams_) |->
                      [st |-> "start", t |-> << >>, upto |-> 0, nop |-> FALSE]]
    /\ primeOwed' = FALSE
    /\ wpc' = "drain"

\* wait_all_streams_() entered on the worker with h read from joinable()
EnterDrain(ret, h) ==
    /\ wret' = ret
    /\ IF h = "joinable"
       THEN /\ wpc' = "dr_det"
            /\ UNCHANGED <<helpers, primeOwed>>
       ELSE SpawnHelpers

\* lines 118-121: the control stream is swapped out
WorkerSwap ==
    /\ ~aborted
    /\ wpc = "swap_ctl"
    /\ wt' = queue[Ctl]
    /\ queue' = [queue EXCEPT ![Ctl] = MovedFrom(@)]
    /\ wpc' = "run_ctl"
    /\ primeOwed' = (Null \in DOMAIN queue /\ queue[Null] # << >>)
    /\ UNCHANGED <<shutEnq, streams_, nullInit, handle, wret, helpers, pc, cpc, nstreams,
                   aborted, enq, invCount, invokedBy, syncSnap, destroyPending, race, calls>>
    /\ UNCHANGED errVars

\* the task of make_stream_async: streams_.emplace_front()
WorkerMake ==
    /\ ~aborted
    /\ wpc = "run_ctl"
    /\ wt # << >>
    /\ Head(wt).kind = "make"
    /\ streams_' = <<nstreams + 2>> \o streams_
    /\ queue' = queue @@ ((nstreams + 2) :> << >>)
    /\ nstreams' = nstreams + 1
    /\ race' = IF nullInit = "busy"
               THEN [race EXCEPT !.ins = @ \cup {nstreams + 2}]
               ELSE race
    /\ InvokeTask(Head(wt).key, WorkerT)
    /\ wt' = Tail(wt)
    /\ UNCHANGED <<nullInit, handle, wpc, wret, helpers, pc, cpc, aborted, enq,
                   syncSnap, destroyPending, primeOwed, shutEnq, calls>>
    /\ UNCHANGED errVars

\* streams_.remove_if([=](auto&& x) { return &x == s; })
RemoveIf_front(sts, s) == IF sts = << >> THEN sts ELSE Tail(sts)
RemoveIf(sts, s) == SelectSeq(sts, LAMBDA x : x # s)

\* the task of destroy_stream_async: the removed Stream is destroyed with the
\* tasks it holds
WorkerDestroy ==
    /\ ~aborted
    /\ wpc = "run_ctl"
    /\ wt # << >>
    /\ Head(wt).kind = "destroy"
    /\ streams_' = RemoveIf(streams_, Head(wt).arg)
    /\ queue' = [x \in DOMAIN queue \ (Range(streams_) \ (Range(streams_') \cup {Null})) |->
                    IF x \in Range(streams_) \ Range(streams_') THEN << >> ELSE queue[x]]
    /\ nullInit' = IF Null \in Range(streams_) \ Range(streams_')
                   THEN "freed"
                   ELSE nullInit
    /\ race' = IF nullInit = "busy" THEN [race EXCEPT !.rem = TRUE] ELSE race
    /\ InvokeTask(Head(wt).key, WorkerT)
    /\ wt' = Tail(wt)
    /\ UNCHANGED <<handle, wpc, wret, helpers, pc, cpc, nstreams, aborted, enq,
                   syncSnap, destroyPending, primeOwed, shutEnq, calls>>
    /\ UNCHANGED errVars

\* the task of synchronize: its callable calls wait_all_streams_()
WorkerSync ==
    /\ ~aborted
    /\ wpc = "run_ctl"
    /\ wt # << >>
    /\ Head(wt).kind = "sync"
    /\ EnterDrain("sync", handle)
    /\ UNCHANGED <<shutEnq, queue, streams_, nullInit, handle, wt, pc, cpc, nstreams,
                   aborted, enq, invCount, invokedBy, syncSnap, destroyPending, race, calls>>
    /\ UNCHANGED errVars

\* the poison task: p = true, then return wait_all_streams_()
WorkerPoison ==
    /\ ~aborted
    /\ wpc = "run_ctl"
    /\ wt # << >>
    /\ Head(wt).kind = "poison"
    /\ InvokeTask(Head(wt).key, WorkerT)
    /\ wt' = Tail(wt)
    /\ EnterDrain("exit", handle)
    /\ UNCHANGED <<shutEnq, queue, streams_, nullInit, handle, pc, cpc, nstreams, aborted,
                   enq, syncSnap, destroyPending, race, calls>>
    /\ UNCHANGED errVars

\* line 131, first call of null_stream() made by the worker
WorkerNullInit ==
    /\ ~aborted
    /\ wpc = "run_ctl"
    /\ wt = << >>
    /\ nullInit = "no"
    /\ streams_' = <<Null>> \o streams_
    /\ queue' = queue @@ (Null :> << >>)
    /\ nullInit' = "done"
    /\ UNCHANGED <<handle, wpc, wt, wret, helpers, pc, cpc, nstreams, aborted,
                   enq, invCount, invokedBy, syncSnap,
                   destroyPending, primeOwed, shutEnq, race, calls>>
    /\ UNCHANGED errVars

\* lines 130-156 with h read from joinable(): drain or back off
Decide(h) ==
    IF backoff(queue, streams_)
    THEN /\ wpc' = "swap_ctl"
         /\ UNCHANGED <<wret, helpers, primeOwed>>
    ELSE EnterDrain("loop", h)

\* lines 130-147 when null_stream() finds the handle not joinable
WorkerCheck ==
    /\ ~aborted
    /\ wpc = "run_ctl"
    /\ wt = << >>
    /\ NullMade
    /\ IF handle = "joinable"
       THEN /\ wpc' = "ns_det"
            /\ UNCHANGED <<wret, helpers, primeOwed>>
       ELSE Decide(handle)
    /\ UNCHANGED <<shutEnq, queue, streams_, nullInit, handle, wt, pc, cpc, nstreams,
                   aborted, enq, invCount, invokedBy, syncSnap, destroyPending, race, calls>>
    /\ UNCHANGED errVars

\* line 240 on the worker: detach(), then lines 131-147
WorkerNullDetach ==
    /\ ~aborted
    /\ wpc = "ns_det"
    /\ DetachAct
    /\ Decide(handle')
    /\ UNCHANGED <<shutEnq, queue, streams_, nullInit, wt, pc, cpc, nstreams, enq,
                   invCount, invokedBy, syncSnap, destroyPending, race, calls>>
    /\ UNCHANGED errVars

\* line 166 on the worker: detach(), then the helpers are started
WorkerDrainDetach ==
    /\ ~aborted
    /\ wpc = "dr_det"
    /\ DetachAct
    /\ SpawnHelpers
    /\ UNCHANGED <<shutEnq, queue, streams_, nullInit, wt, wret, pc, cpc, nstreams, enq,
                   invCount, invokedBy, syncSnap, destroyPending, race, calls>>
    /\ UNCHANGED errVars

\* a drain that waits for the std::async helper only
AllHelpersDone_async == FHelper \in DOMAIN helpers /\ helpers[FHelper].st = "done"
\* std::for_each has returned and f.wait() has returned
AllHelpersDone == \A h \in DOMAIN helpers : helpers[h].st = "done"

\* line 193 returns in step 3 of the loop
WorkerDrainedLoop ==
    /\ ~aborted
    /\ wpc = "drain"
    /\ wret = "loop"
    /\ AllHelpersDone
    /\ helpers' = NoHelpers
    /\ wpc' = "swap_ctl"
    /\ UNCHANGED <<queue, streams_, nullInit, handle, wt, wret, pc, cpc, nstreams,
                   aborted, enq, invCount, invokedBy, syncSnap, destroyPending, primeOwed, shutEnq,
                   race, calls>>
    /\ UNCHANGED errVars

\* line 193 returns inside the task of synchronize, which is then resolved
WorkerDrainedSync ==
    /\ ~aborted
    /\ wpc = "drain"
    /\ wret = "sync"
    /\ AllHelpersDone
    /\ helpers' = NoHelpers
    /\ InvokeTask(Head(wt).key, WorkerT)
    /\ wt' = Tail(wt)
    /\ wpc' = "run_ctl"
    /\ UNCHANGED <<queue, streams_, nullInit, handle, wret, pc, cpc, nstreams,
                   aborted, enq, syncSnap, destroyPending,
                   primeOwed, shutEnq, race, calls>>
    /\ UNCHANGED errVars

\* line 127: the final drain returns and the thread function with it
WorkerExit ==
    /\ ~aborted
    /\ wpc = "drain"
    /\ wret = "exit"
    /\ AllHelpersDone
    /\ helpers' = NoHelpers
    /\ wt' = << >>
    /\ wpc' = "exited"
    /\ UNCHANGED <<queue, streams_, nullInit, handle, wret, pc, cpc, nstreams,
                   aborted, enq, invCount, invokedBy, syncSnap, destroyPending, primeOwed, shutEnq,
                   race, calls>>
    /\ UNCHANGED errVars

\* ---- the helpers of wait_all_streams_ --------------------------------------

\* x.apply([&t](auto&& ts) { t = std::move(ts); }) by helper h on stream s
SwapOut(h, s) ==
    /\ helpers' = [helpers EXCEPT ![h] =
                      [st |-> IF queue[s] = << >> THEN "done" ELSE "run",
                       t |-> queue[s], upto |-> enq[s], nop |-> FALSE]]
    /\ queue' = [queue EXCEPT ![s] = MovedFrom(@)]

\* a drain whose element functions run one after the other
HelperAt_serial(h, st) ==
    /\ wpc = "drain"
    /\ h \in DOMAIN helpers
    /\ helpers[h].st = st
    /\ \A g \in DOMAIN helpers : g < h => helpers[g].st = "done"
HelperAt(h, st) == wpc = "drain" /\ h \in DOMAIN helpers /\ helpers[h].st = st

\* the std::async helper calls null_stream(), then swaps the null stream out
HelperNullStream ==
    /\ ~aborted
    /\ HelperAt(FHelper, "start")
    /\ nullInit # "busy"
    /\ IF nullInit = "no"
       THEN /\ nullInit' = "busy"
            /\ race' = NoRace
            /\ helpers' = [helpers EXCEPT ![FHelper].st = "init"]
            /\ UNCHANGED queue
       ELSE /\ UNCHANGED <<nullInit, race>>
            /\ IF handle = "joinable"
               THEN /\ helpers' = [helpers EXCEPT ![FHelper].st = "det"]
                    /\ UNCHANGED queue
               ELSE SwapOut(FHelper, Null)
    /\ UNCHANGED <<streams_, handle, wpc, wt, wret, pc, cpc, nstreams, aborted,
                   enq, invCount, invokedBy, syncSnap,
                   destroyPending, primeOwed, shutEnq, calls>>
    /\ UNCHANGED errVars

\* first call of null_stream() made by the std::async helper
HelperNullInit ==
    /\ ~aborted
    /\ HelperAt(FHelper, "init")
    /\ FinishNullInit
    /\ helpers' = [helpers EXCEPT ![FHelper].st = "start"]
    /\ UNCHANGED <<handle, wpc, wt, wret, pc, cpc, nstreams, aborted, enq,
                   invCount, invokedBy, syncSnap, destroyPending,
                   primeOwed, shutEnq, calls>>
    /\ UNCHANGED errVars

\* line 240 on the std::async helper: detach(), then the swap
HelperDetach ==
    /\ ~aborted
    /\ HelperAt(FHelper, "det")
    /\ DetachAct
    /\ SwapOut(FHelper, Null)
    /\ UNCHANGED <<streams_, nullInit, wpc, wt, wret, pc, cpc, nstreams, enq,
                   invCount, invokedBy, syncSnap, destroyPending,
                   primeOwed, shutEnq, race, calls>>
    /\ UNCHANGED errVars

\* lines 185-188: the element function of for_each swaps stream s out
HelperSwap(s) ==
    /\ ~aborted
    /\ s # FHelper
    /\ HelperAt(s, "start")
    /\ SwapOut(s, s)
    /\ UNCHANGED <<streams_, nullInit, handle, wpc, wt, wret, pc, cpc, nstreams,
                   aborted, enq, invCount, invokedBy, syncSnap, destroyPending, primeOwed, shutEnq,
                   race, calls>>
    /\ UNCHANGED errVars

\* x(flag): whether the callable of the task sets its argument
SetsFlag(task) == task.kind \in {"poison", "flag"}

\* { bool nop{}; x(nop); }: whether the helper's loop acts on the flag its task
\* has set
HelperStops_obeys(task) == SetsFlag(task)
HelperStops(task) == FALSE

\* lines 175-178 and 190: the next swapped-out task is invoked
HelperRun(h) ==
    /\ ~aborted
    /\ HelperAt(h, "run")
    /\ InvokeTask(Head(helpers[h].t).key, HelperT)
    /\ wret' = IF HelperStops(Head(helpers[h].t)) THEN "exit" ELSE wret
    /\ helpers' = [helpers EXCEPT ![h] =
                      [st |-> IF Tail(@.t) = << >> THEN "done" ELSE "run",
                       t |-> Tail(@.t), upto |-> @.upto,
                       nop |-> SetsFlag(Head(@.t))]]
    /\ UNCHANGED <<queue, streams_, nullInit, handle, wpc, wt, pc, cpc,
                   nstreams, aborted, enq, syncSnap,
                   destroyPending, primeOwed, shutEnq, race, calls>>
    /\ UNCHANGED errVars

\* null_stream()->apply(...) at line 131 or 173 after the null stream was
\* destroyed: the access to the freed Stream crashes the process (the other
\* outcome, the freed memory still reading as a stream, is what WorkerCheck
\* and HelperNullStream do)
NullUseAfterFree ==
    /\ ~aborted
    /\ nullInit = "freed"
    /\ \/ wpc = "run_ctl" /\ wt = << >>
       \/ HelperAt(FHelper, "start")
       \/ HelperAt(FHelper, "det")
    /\ aborted' = TRUE
    /\ UNCHANGED <<queue, streams_, nullInit, handle, wpc, wt, wret, helpers, pc,
                   cpc, nstreams, enq, invCount, invokedBy, syncSnap,
                   destroyPending, primeOwed, shutEnq, race, calls>>
    /\ UNCHANGED errVars

\* ---- the static guard (~Cleaner_) ------------------------------------------

PoisonKey == <<Ctl, enq[Ctl]>>

\* lines 88-95: the poison task is appended, joinable() is read. Static
\* destruction begins when no thread is inside a public operation.
CleanerPoison ==
    /\ ~aborted
    /\ cpc = "live"
    /\ \A p \in Producers : pc[p] = "idle"
    /\ AppendTask(Ctl, "poison", 0)
    /\ StartWorker
    /\ shutEnq' = enq
    /\ cpc' = IF handle' = "joinable" THEN "join" ELSE "futwait"
    /\ UNCHANGED <<streams_, nullInit, wt, wret, helpers, pc, nstreams, aborted,
                   syncSnap, destroyPending, primeOwed, race, calls>>
    /\ UNCHANGED errVars

\* line 95: join() returns once the thread function has returned
CleanerJoin ==
    /\ ~aborted
    /\ cpc = "join"
    /\ handle = "joinable"
    /\ wpc = "exited"
    /\ handle' = "joined"
    /\ cpc' = "futwait"
    /\ UNCHANGED <<queue, streams_, nullInit, wpc, wt, wret, helpers, pc,
                   nstreams, aborted, enq, invCount, invokedBy, syncSnap, destroyPending, primeOwed, shutEnq, race, calls>>
    /\ UNCHANGED errVars

\* line 97: fut.wait() returns, the destructor returns
CleanerWait ==
    /\ ~aborted
    /\ cpc = "futwait"
    /\ Resolved(PoisonKey)
    /\ cpc' = "done"
    /\ UNCHANGED <<queue, streams_, nullInit, handle, wpc, wt, wret, helpers, pc,
                   nstreams, aborted, enq, invCount, invokedBy, syncSnap, destroyPending, primeOwed, shutEnq, race, calls>>
    /\ UNCHANGED errVars

\* ---- the last-error slot ---------------------------------------------------

\* static thread_local hipError_t r{hipSuccess}: the slot thread t reaches
Slot_shared(t) == 0
Slot(t) == t

\* return std::exchange(last_error_(), e) on thread t
set_last_error(t, e) ==
    /\ lastError' = [lastError EXCEPT ![Slot(t)] = e]
    /\ errLog' = [t |-> t, op |-> "set", ret |-> lastError[Slot(t)],
                  exp |-> errExpect[t]]
    /\ errExpect' = [errExpect EXCEPT ![t] = e]
    /\ UNCHANGED runVars

\* return last_error_() on thread t
last_error(t) ==
    /\ errLog' = [t |-> t, op |-> "get", ret |-> lastError[Slot(t)],
                  exp |-> errExpect[t]]
    /\ UNCHANGED <<lastError, errExpect>>
    /\ UNCHANGED runVars

ErrNext ==
    \/ \E t \in ErrThreads : \E e \in ErrorCodes : set_last_error(t, e)
    \/ \E t \in ErrThreads : last_error(t)

ErrSpec == Init /\ [][ErrNext]_vars

\* ---- specification ---------------------------------------------------------

Next ==
    \/ \E p \in Producers : make_stream_async(p)
    \/ \E p \in Producers : \E s \in AllStreams \ {Ctl} : destroy_stream_async(p, s)
    \/ \E p \in Producers : \E s \in UserIds : push_task(p, s)
    \/ \E p \in Producers : \E s \in UserIds : apply_flagging(p, s)
    \/ \E p \in Producers : push_task_null(p)
    \/ \E p \in Producers : PushNullInit(p)
    \/ \E p \in Producers : PushNullResume(p)
    \/ \E p \in Producers : synchronize(p)
    \/ \E p \in Producers : ProducerDetach(p)
    \/ \E p \in Producers : SyncReturn(p)
    \/ WorkerSwap
    \/ WorkerMake
    \/ WorkerDestroy
    \/ WorkerSync
    \/ WorkerPoison
    \/ WorkerNullInit
    \/ WorkerCheck
    \/ WorkerNullDetach
    \/ WorkerDrainDetach
    \/ WorkerDrainedLoop
    \/ WorkerDrainedSync
    \/ WorkerExit
    \/ HelperNullStream
    \/ HelperNullInit
    \/ HelperDetach
    \/ \E s \in AllStreams : HelperSwap(s)
    \/ \E h \in AllStreams : HelperRun(h)
    \/ NullUseAfterFree
    \/ CleanerPoison
    \/ CleanerJoin
    \/ CleanerWait

Spec == Init /\ [][Next]_vars

\* the worker thread, the helper threads and a producer inside an operation are
\* scheduled again and again
WorkerStep ==
    \/ WorkerSwap \/ WorkerMake \/ WorkerDestroy \/ WorkerSync \/ WorkerPoison
    \/ WorkerNullInit \/ WorkerCheck \/ WorkerNullDetach \/ WorkerDrainDetach
    \/ WorkerDrainedLoop \/ WorkerDrainedSync \/ WorkerExit
HelperStep ==
    \/ HelperNullStream \/ HelperNullInit \/ HelperDetach
    \/ \E s \in AllStreams : HelperSwap(s)
    \/ \E h \in AllStreams : HelperRun(h)
ProducerStep(p) ==
    PushNullInit(p) \/ PushNullResume(p) \/ ProducerDetach(p) \/ SyncReturn(p)
FairSpec ==
    /\ Spec
    /\ WF_vars(WorkerStep)
    /\ WF_vars(HelperStep)
    /\ \A p \in Producers : WF_vars(ProducerStep(p))

\* ---- properties -------------------------------------------------------------

StreamOf(h) == IF h = FHelper THEN Null ELSE h

QueuedKeys == UNION {{queue[s][i].key : i \in DOMAIN queue[s]} : s \in DOMAIN queue}
BatchKeys ==
    {wt[i].key : i \in DOMAIN wt}
    \cup UNION {{helpers[h].t[i].key : i \in DOMAIN helpers[h].t} : h \in DOMAIN helpers}
\* tasks destroyed without having been invoked
Discarded == {k \in DOMAIN invCount : invCount[k] = 0 /\ k \notin QueuedKeys \cup BatchKeys}

\* C1: on every stream, a task is invoked (and its completion handle resolved)
\* only after every task appended to that stream before it.
FifoPerStream ==
    \A k \in DOMAIN invCount :
        invCount[k] >= 1 => \A n \in 1..(k[2] - 1) : invCount[<<k[1], n>>] >= 1

\* C2: when synchronize() returns, every task appended to any stream before
\* the call began has been invoked.
SynchronizeComplete ==
    [][\A p \in Producers :
          (pc[p] = "sy_wait" /\ pc'[p] = "idle") =>
              \A s \in AllStreams : \A n \in 1..syncSnap[p].snap[s] :
                  invCount[<<s, n>>] >= 1]_vars

\* C3: when ~Cleaner_ returns, the worker thread has returned from its thread
\* function and no helper is running.
ShutdownWaitsForWorker ==
    cpc = "done" => (wpc = "exited" /\ helpers = NoHelpers)

\* C4: when the worker thread has terminated, every task appended to the null
\* stream or a user stream before shutdown began has been invoked.
ShutdownDrainsPending ==
    wpc = "exited" =>
        \A s \in AllStreams \ {Ctl} : \A n \in 1..shutEnq[s] : invCount[<<s, n>>] >= 1

\* C5: no operation removes a queued task without invoking it: a task that has
\* not been invoked is still in a stream or in a swapped-out batch.
NoTaskDropped == Discarded = {}

\* C6: no task is invoked more than once.
AtMostOnce == \A k \in DOMAIN invCount : invCount[k] <= 1

\* C6 witness: one drain in which the std::async helper and the for_each helper
\* of the null stream both swapped the null stream, after the worker swapped the
\* control stream; two null-stream tasks and a control task were invoked.
AtMostOnceWitness ==
    /\ wpc = "drain"
    /\ {FHelper, Null} \subseteq DOMAIN helpers
    /\ helpers[FHelper].st = "done"
    /\ helpers[Null].st = "done"
    /\ {<<Null, 2>>, <<Ctl, 1>>} \subseteq DOMAIN invCount
    /\ invCount[<<Null, 1>>] = 1
    /\ invCount[<<Null, 2>>] = 1
    /\ invCount[<<Ctl, 1>>] = 1

\* C7: streams_ is changed by no step of a producer or of a helper (only by
\* steps of the worker).
OnlyWorkerMutatesStreams ==
    [][streams_' # streams_ => (pc' = pc /\ helpers' = helpers)]_vars

\* C8: control-stream tasks are invoked on the worker, null- and user-stream
\* tasks on a drain helper; none is invoked on a producer thread.
ProducersNeverInvoke ==
    \A k \in DOMAIN invCount :
        invCount[k] >= 1 =>
            invokedBy[k] = (IF k[1] = Ctl THEN WorkerT ELSE HelperT)

\* C8 witness: a producer is blocked in synchronize() while a helper of the
\* drain it asked for is executing the second task of its stream.
ProducersNeverInvokeWitness ==
    \E p \in Producers :
        /\ pc[p] = "sy_wait"
        /\ wpc = "drain"
        /\ wret = "sync"
        /\ \E h \in DOMAIN helpers :
              /\ helpers[h].st = "run"
              /\ Head(helpers[h].t).key[2] >= 2
              /\ invokedBy[<<StreamOf(h), 1>>] = HelperT

\* C9: a worker iteration that began with a non-empty null stream starts a
\* drain before it ends; every drain has the std::async helper for the null
\* stream and one helper for every user stream in streams_; and when all its
\* helpers are done every task they swapped out has been invoked.
NullStreamPriming ==
    /\ wpc \in {"swap_ctl", "exited"} => ~primeOwed
    /\ wpc = "drain" =>
          /\ FHelper \in DOMAIN helpers
          /\ (Range(streams_) \ {Null}) \subseteq DOMAIN helpers
    /\ (wpc = "drain" /\ AllHelpersDone) =>
          \A h \in DOMAIN helpers : \A n \in 1..helpers[h].upto :
              invCount[<<StreamOf(h), n>>] >= 1

\* C9 witness: a drain of step 3 has executed tasks of the null stream and of
\* a user stream.
NullStreamPrimingWitness ==
    /\ wpc = "drain"
    /\ wret = "loop"
    /\ ~primeOwed
    /\ AllHelpersDone
    /\ helpers[FHelper].upto >= 1
    /\ \E s \in UserIds \cap DOMAIN helpers :
          /\ helpers[s].upto >= 1
          /\ invokedBy[<<s, helpers[s].upto>>] = HelperT

\* C10: the tasks that were pending when destroy_stream_async was called have
\* one outcome: never is one of them invoked and another one discarded.
DestroyPolicyDeterministic ==
    \A s1 \in DOMAIN destroyPending : \A s2 \in DOMAIN destroyPending :
        \A n1 \in destroyPending[s1] : \A n2 \in destroyPending[s2] :
            ~(invCount[<<s1, n1>>] >= 1 /\ <<s2, n2>> \in Discarded)

\* C12: once null_stream() has created the null stream, the Stream it returns
\* is never destroyed: it stays a live stream.
NullStreamStable == nullInit # "freed"

\* C13: the step that resolves the completion handle of destroy_stream_async(s)
\* leaves s out of streams_ and keeps every other stream of streams_ in it, in
\* the same order, with its queued tasks unchanged.
DestroyRemovesByIdentity ==
    [][(/\ wpc = "run_ctl"
        /\ wt # << >>
        /\ Head(wt).kind = "destroy"
        /\ invCount[Head(wt).key] = 0
        /\ invCount'[Head(wt).key] = 1)
       => /\ Head(wt).arg \notin Range(streams_')
          /\ streams_' = SelectSeq(streams_, LAMBDA x : x # Head(wt).arg)
          /\ \A x \in Range(streams_) \ {Head(wt).arg} :
                x \in DOMAIN queue' /\ queue'[x] = queue[x]]_vars

\* C13 witness: a user stream was removed and destroyed by its destroy task
\* while another user stream is live and holds a queued task.
DestroyRemovesByIdentityWitness ==
    \E s \in DOMAIN destroyPending :
        /\ s \in UserIds
        /\ s \notin DOMAIN queue
        /\ \E x \in Range(streams_) \cap UserIds : queue[x] # << >>

CrossStreamEitherOrder ==
    (wpc = "drain" /\ ~aborted) =>
        \A h1 \in DOMAIN helpers : \A h2 \in DOMAIN helpers :
            (/\ StreamOf(h1) # StreamOf(h2)
             /\ helpers[h1].st \in (IF h1 = FHelper THEN {"run"} ELSE {"start", "run"})
             /\ helpers[h2].st \in (IF h2 = FHelper THEN {"run"} ELSE {"start", "run"}))
            => /\ ENABLED (HelperSwap(h1) \/ HelperRun(h1))
               /\ ENABLED (HelperSwap(h2) \/ HelperRun(h2))

\* C15 witness: the helpers of two distinct streams each hold a swapped-out
\* task that has not been invoked yet.
CrossStreamEitherOrderWitness ==
    /\ wpc = "drain"
    /\ ~aborted
    /\ \E h1 \in DOMAIN helpers : \E h2 \in DOMAIN helpers :
          /\ StreamOf(h1) # StreamOf(h2)
          /\ helpers[h1].st = "run"
          /\ helpers[h2].st = "run"
          /\ invCount[Head(helpers[h1].t).key] = 0
          /\ invCount[Head(helpers[h2].t).key] = 0

\* C16: set_last_error returns what the calling thread's slot held (the code
\* that thread last set, hipSuccess if none), last_error returns the code the
\* calling thread last set, and a thread's slot holds what that thread last set
\* whatever the other threads do.
LastErrorPerThread ==
    /\ errLog.op # "none" => errLog.ret = errLog.exp
    /\ \A t \in ErrThreads : lastError[Slot(t)] = errExpect[t]

\* C16 witness: last_error() returned a code other than hipSuccess to a thread
\* while another thread's slot holds a different code that it has set.
LastErrorPerThreadWitness ==
    /\ errLog.op = "get"
    /\ errLog.ret # hipSuccess
    /\ \E u \in ErrThreads \ {errLog.t} :
          /\ errExpect[u] \notin {hipSuccess, errLog.ret}
          /\ lastError[Slot(u)] = errExpect[u]

\* C17: helpers exist only while the worker is inside a drain, and while a
\* helper of the drain has not finished the worker stays in that drain: it
\* takes no further step, and the set of helpers is not replaced.
DrainGenerationsDisjoint ==
    /\ [](wpc # "drain" => helpers = NoHelpers)
    /\ [][(\E h \in DOMAIN helpers : helpers[h].st # "done")
           => (/\ wpc' = wpc
               /\ wt' = wt
               /\ DOMAIN helpers' = DOMAIN helpers)]_vars

\* C17 witness: a drain with two helpers that invoked tasks has returned and
\* the worker is at the start of its next iteration.
DrainGenerationsDisjointWitness ==
    /\ wpc = "swap_ctl"
    /\ helpers = NoHelpers
    /\ \E s1 \in UserIds : \E s2 \in AllStreams \ {Ctl, s1} :
          /\ <<s1, 1>> \in DOMAIN invokedBy
          /\ <<s2, 1>> \in DOMAIN invokedBy
          /\ invokedBy[<<s1, 1>>] = HelperT
          /\ invokedBy[<<s2, 1>>] = HelperT

\* C18: in a drain, no two helpers hold swapped-out tasks of the same stream.
OneHelperPerStream ==
    \A h1 \in DOMAIN helpers : \A h2 \in DOMAIN helpers :
        (h1 # h2 /\ helpers[h1].st = "run" /\ helpers[h2].st = "run")
            => StreamOf(h1) # StreamOf(h2)

\* threads that have read joinable() as true and have not yet acted on it
HandlePending ==
    {<<ProducerT, p>> : p \in {q \in Producers : pc[q] \in {"mk_det", "sy_det", "pn_det"}}}
    \cup (IF wpc \in {"ns_det", "dr_det"} THEN {<<WorkerT, 0>>} ELSE {})
    \cup (IF HelperAt(FHelper, "det") THEN {<<HelperT, 0>>} ELSE {})
    \cup (IF cpc = "join" THEN {<<"cleaner", 0>>} ELSE {})

\* C19: at most one thread at a time is between reading joinable() as true
\* and its detach() or join().
HandleCheckThenActExclusive == Cardinality(HandlePending) <= 1

\* C20: the worker has returned only if the poison task of the control stream
\* was invoked; the poison task is followed by one drain, from which the worker
\* goes nowhere but to its return; the invocation of a task of the null stream
\* or of a user stream changes neither the worker's position nor what it does
\* after the drain, and the helper goes on with the rest of its batch; once
\* the worker has returned no task is invoked.
OnlyControlPoisonStops ==
    /\ [](wpc = "exited" => (cpc # "live" /\ invCount[PoisonKey] >= 1))
    /\ [][
          /\ (wret' = "exit" /\ wret # "exit")
                => (wpc = "run_ctl" /\ wt # << >> /\ Head(wt).kind = "poison")
          /\ (wret = "exit" /\ wpc = "drain") => wpc' \in {"drain", "exited"}
          /\ wpc' = "exited" => (wpc = "exited" \/ (wpc = "drain" /\ wret = "exit"))
          /\ \A h \in DOMAIN helpers :
                (/\ helpers[h].st = "run"
                 /\ helpers[h].t # << >>
                 /\ h \in DOMAIN helpers'
                 /\ helpers'[h].t # helpers[h].t)
                  => (/\ wret' = wret
                      /\ wpc' = wpc
                      /\ helpers'[h].st = (IF Tail(helpers[h].t) = << >>
                                             THEN "done" ELSE "run")
                      /\ helpers'[h].t = Tail(helpers[h].t))
          /\ wpc = "exited" => invCount' = invCount
       ]_vars

\* C20 witness: in a drain of step 3 a helper has invoked a task that set its
\* flag and goes on with the next task of its batch; no teardown has begun.
OnlyControlPoisonStopsWitness ==
    /\ wpc = "drain"
    /\ wret = "loop"
    /\ cpc = "live"
    /\ \E h \in DOMAIN helpers : helpers[h].st = "run" /\ helpers[h].nop

\* C11: a call of synchronize() that has appended its task eventually returns,
\* unless teardown begins while it is in progress.
SynchronizeTerminates ==
    \A p \in Producers :
        (pc[p] \in {"sy_det", "sy_wait"} /\ cpc = "live")
            ~> (pc[p] = "idle" \/ cpc # "live")

====
